---- MODULE Spec2Model ----
(***************************************************************************)
(* prtop: the two-mode session engine (the Bubble Tea model of ui.go) and  *)
(* the data it consumes from gh.go.                                        *)
(*                                                                         *)
(* The handlers of model.Update are translated from the revision of ui.go  *)
(* that is among the sources (src/unnamed/part_001).  That revision has no *)
(* hideSkipped, scrollOff or canGoBack field, no filteredChecks() and no   *)
(* Esc or 's' handler; ui_test.go exercises all of them.  Those parts are  *)
(* modelled from the specification and from ui_test.go, and are kept in    *)
(* definitions of their own: newFields, filteredChecks, navChecks,         *)
(* adjustScroll, scrollAfter, mayGoBack, KeyEsc, KeyS, viewHidden and      *)
(* viewRows.  Without hiding, the list that navigation and clamping use is *)
(* prData.Checks, as in part_001.                                          *)
(*                                                                         *)
(* Spec is the running program, FairSpec the same under the scheduling of  *)
(* the runtime, CallSpec the direct calls that ui_test.go makes on models  *)
(* it constructs, ViewSpec the rendering of any model, GhSpec the calls of *)
(* normalizeStatus and fetchPRData of gh.go on the responses of the        *)
(* upstream.                                                               *)
(***************************************************************************)
EXTENDS Integers, Sequences, FiniteSets, TLC

\* ---------------------------------------------------------------- bounds
\* Fetch commands (fetch-list and fetch-data together) that may be in flight.
MaxFetches == 2
\* Timers that may be armed.
MaxTicks == 2
\* The tallest viewport a resize event reports.
MaxHeight == 10
\* The longest check list a directly constructed model holds.
MaxChecks == 3
\* The most whitespace characters on either side of a raw status.
MaxPad == 1
\* The most items of a statusCheckRollup that is sorted.
MaxItems == 3

\* ------------------------------------------------------ program constants
Running == 0
Fail == 1
Pass == 2
Skipped == 3

modeSelecting == 0
modeViewing == 1

\* Lines of the screen that are not table rows (View: maxRows := m.height - 8).
chromeRows == 8

\* The viewport of the models that ui_test.go renders.
TestWidth == 120
TestHeight == 30

VARIABLES
    mode, repo, prNumber, interval, prData, err, selected, width, height,
    prs, loading,
    hideSkipped, scrollOff, canGoBack,
    msg,        \* the message Update was last called with
    cmd,        \* the commands that call returned (a tea.Batch is a sequence)
    opened,     \* the URL that call passed to openBrowser, "" if none
    run,        \* "running", "quit" (tea.Quit was returned) or "panic"
    listCmds,   \* fetchPRListCmd closures in flight
    dataCmds,   \* fetchCmd closures in flight, per captured (repo, prNumber)
    ticks,      \* tea.Tick timers armed
    shownBefore,\* the filtered checks before each of the 's' presses (at most the
                \* last two) that were handled in a row up to that call
    out         \* what the last direct call of filteredChecks() or View() returned

state == <<mode, repo, prNumber, interval, prData, err, selected, width, height,
           prs, loading, hideSkipped, scrollOff, canGoBack>>

vars == <<mode, repo, prNumber, interval, prData, err, selected, width, height,
          prs, loading, hideSkipped, scrollOff, canGoBack,
          msg, cmd, opened, run, listCmds, dataCmds, ticks, shownBefore, out>>

\* ------------------------------------------------------------------ data
NoErr == ""
ListErr == "gh CLI error: search failed"
DataErr == "gh CLI error: view failed"

Check(n, s, u) == [Name |-> n, Status |-> s, DetailsURL |-> u]

\* A nil *PRData.
NoData == [nil |-> TRUE, URL |-> "", Checks |-> <<>>]

PRData(u, cs) == [nil |-> FALSE, URL |-> u, Checks |-> cs]

PRSummary(r, n) == [Repo |-> r, Number |-> n]

Digit(d) ==
    CASE d = 0 -> "0" [] d = 1 -> "1" [] d = 2 -> "2" [] d = 3 -> "3"
      [] d = 4 -> "4" [] d = 5 -> "5" [] d = 6 -> "6" [] d = 7 -> "7"
      [] d = 8 -> "8" [] OTHER -> "9"

\* fmt.Sprintf("%d", n) for n >= 0.
RECURSIVE Sprintf_d(_)
Sprintf_d(n) == IF n < 10 THEN Digit(n) ELSE Sprintf_d(n \div 10) \o Digit(n % 10)

\* The canonical URL of a pull request, as parsePRURL reads it.
prURL(r, n) == "https://github.com/" \o r \o "/pull/" \o n

\* ------------------------------------------------- what the fetchers return
\* Check lists as fetchPRData returns them: sorted by status, then by name.
CheckLists ==
    { << >>,
      << Check("x", Skipped, "") >>,
      << Check("c", Pass, "http://c"), Check("d", Skipped, "http://d") >>,
      << Check("a", Running, "http://a"), Check("b", Fail, ""),
         Check("c", Pass, "http://c"), Check("d", Skipped, "http://d") >> }

PR1 == PRSummary("a/x", 7)
PR2 == PRSummary("b/y", 12)

PRLists == { << >>, << PR1, PR2 >> }

Target(r, n) == [repo |-> r, prNumber |-> n]

\* The pull request named on the command line.
ArgTarget == Target("o/r", "1")

Targets == { ArgTarget, Target(PR1.Repo, Sprintf_d(PR1.Number)),
             Target(PR2.Repo, Sprintf_d(PR2.Number)) }

Intervals == { 5 }

Heights == (chromeRows + 1) .. MaxHeight

Widths == { 80 }

\* ------------------------------------------------------------- messages
NoMsg(t) == [type |-> t, key |-> "", data |-> NoData, prs |-> << >>,
             err |-> NoErr, Width |-> 0, Height |-> 0]

KeyMsg(k) == [NoMsg("KeyMsg") EXCEPT !.key = k]

prListMsg(p, e) == [NoMsg("prListMsg") EXCEPT !.prs = p, !.err = e]

prDataMsg(d, e) == [NoMsg("prDataMsg") EXCEPT !.data = d, !.err = e]

tickMsg == NoMsg("tickMsg")

WindowSizeMsg(w, h) == [NoMsg("WindowSizeMsg") EXCEPT !.Width = w, !.Height = h]

\* ------------------------------------------------------------- commands
Cmd(op, r, n, d) == [op |-> op, repo |-> r, prNumber |-> n, d |-> d]

fetchPRListCmd == Cmd("fetchPRList", "", "", 0)

fetchCmd(r, n) == Cmd("fetchPRData", r, n, 0)

tickCmd(d) == Cmd("tick", "", "", d)

Quit == Cmd("quit", "", "", 0)

NoCmd == << >>

NoneInFlight == [t \in Targets |-> 0]

RECURSIVE SumOver(_, _)
SumOver(f, S) ==
    IF S = {} THEN 0
    ELSE LET t == CHOOSE x \in S : TRUE IN f[t] + SumOver(f, S \ {t})

dataInFlight == SumOver(dataCmds, Targets)

fetchesInFlight == listCmds + dataInFlight

\* ghCheckItem: the fields of an upstream check record that give its status.
ghCheckItem(c, s, st) == [Conclusion |-> c, Status |-> s, State |-> st]

NoItem == ghCheckItem("", "", "")

\* The result of a direct call: the list filteredChecks() returned, or the
\* summary counts, the hidden count and the table rows View() wrote; screen
\* is the kind of screen View() drew, "" before it is known.  For a call of
\* fetchPRData: rollup is the statusCheckRollup of the response, now the
\* clock reading of the call and fetched the Checks of the PRData returned.
Out(fn, cs, counts, hid, rws) ==
    [fn |-> fn, checks |-> cs, counts |-> counts, hidden |-> hid, rows |-> rws,
     screen |-> "", raw |-> "", token |-> "", item |-> NoItem, status |-> Running,
     rollup |-> << >>, now |-> 0, fetched |-> << >>]

NoCounts == [total |-> 0, passed |-> 0, running |-> 0, failed |-> 0, skipped |-> 0]

NoOut == Out("", << >>, NoCounts, 0, << >>)

\* ---------------------------------------------------------- construction
newModel(r, n, d) ==
    /\ mode = modeViewing
    /\ repo = r
    /\ prNumber = n
    /\ interval = d
    /\ prData = NoData
    /\ err = NoErr
    /\ selected = 0
    /\ width = 0
    /\ height = 0
    /\ prs = << >>
    /\ loading = FALSE

newSelectModel(d) ==
    /\ mode = modeSelecting
    /\ repo = ""
    /\ prNumber = ""
    /\ interval = d
    /\ prData = NoData
    /\ err = NoErr
    /\ selected = 0
    /\ width = 0
    /\ height = 0
    /\ prs = << >>
    /\ loading = TRUE

\* Mutant of newFields: a session starts with the Skipped checks shown.
newFields_skippedShown(back) ==
    /\ hideSkipped = FALSE
    /\ scrollOff = 0
    /\ canGoBack = back

\* The fields ui_test.go reads after construction: Skipped checks start hidden,
\* nothing is scrolled, and only a session started in the picker can go back.
newFields(back) ==
    /\ hideSkipped = TRUE
    /\ scrollOff = 0
    /\ canGoBack = back

\* model.Init: the commands the program starts with.
InitCmd ==
    IF mode = modeSelecting
    THEN << fetchPRListCmd >>
    ELSE << fetchCmd(repo, prNumber), tickCmd(interval) >>

Init ==
    /\ \E d \in Intervals :
          \/ newModel(ArgTarget.repo, ArgTarget.prNumber, d) /\ newFields(FALSE)
          \/ newSelectModel(d) /\ newFields(TRUE)
    /\ msg = NoMsg("init")
    /\ cmd = InitCmd
    /\ opened = ""
    /\ run = "running"
    /\ listCmds = IF mode = modeSelecting THEN 1 ELSE 0
    /\ dataCmds = IF mode = modeSelecting THEN NoneInFlight
                  ELSE [NoneInFlight EXCEPT ![Target(repo, prNumber)] = 1]
    /\ ticks = IF mode = modeSelecting THEN 0 ELSE 1
    /\ shownBefore = << >>
    /\ out = NoOut

\* ------------------------------------------------------------- helpers
\* View: maxRows := m.height - 8; if maxRows < 1 { maxRows = 1 }.
visibleRows(h) == IF h - chromeRows < 1 THEN 1 ELSE h - chromeRows

\* Mutant of filteredChecks: the Skipped checks are dropped whatever the flag.
filteredChecks_ignoresFlag(pd, hide) ==
    IF pd.nil THEN << >>
    ELSE SelectSeq(pd.Checks, LAMBDA c : c.Status # Skipped)

\* m.filteredChecks(): nil without data, every check when nothing is hidden,
\* else the checks that are not Skipped, in their order.
filteredChecks(pd, hide) ==
    IF pd.nil THEN << >>
    ELSE IF ~hide THEN pd.Checks
    ELSE SelectSeq(pd.Checks, LAMBDA c : c.Status # Skipped)

\* The checks that navigation, clamping and open-details count and index.
navChecks == filteredChecks(prData, hideSkipped)

\* Mutant of adjustScroll: the selected row is put in the middle of the window.
adjustScroll_recentres(sel, off, rows) ==
    IF sel >= off + rows \/ sel < off
    THEN IF sel - rows \div 2 < 0 THEN 0 ELSE sel - rows \div 2
    ELSE off

\* Scroll-offset maintenance: the least movement that shows row sel.
adjustScroll(sel, off, rows) ==
    IF sel >= off + rows THEN sel - rows + 1
    ELSE IF sel < off THEN sel
    ELSE off

\* The maintenance applies after every change of the selection in Viewing.
scrollAfter(newMode, newSel) ==
    IF newMode = modeViewing /\ newSel # selected
    THEN adjustScroll(newSel, scrollOff, visibleRows(height))
    ELSE scrollOff

\* case tea.KeyUp, "k": if m.selected > 0 { m.selected-- }
selectedUp(sel) == IF sel > 0 THEN sel - 1 ELSE sel

\* Mutant of selectedDown: the last row does not stop the selection.
selectedDown_pastEnd(sel) == sel + 1

\* case tea.KeyDown, "j": one step down, inside the list of the mode.
selectedDown(sel) ==
    IF mode = modeSelecting
    THEN IF Len(prs) > 0 /\ sel < Len(prs) - 1 THEN sel + 1 ELSE sel
    ELSE IF ~prData.nil /\ sel < Len(navChecks) - 1 THEN sel + 1 ELSE sel

\* Mutant of clampSelected: the upper clamp is forgotten.
clampSelected_unclamped(sel, n) == IF n > 0 THEN sel ELSE 0

\* Mutant of clampSelected: the comparison is off by one (> for >=).
clampSelected_offByOne(sel, n) ==
    IF n > 0
    THEN IF sel > n THEN n - 1 ELSE sel
    ELSE 0

\* case prDataMsg, "Clamp selection": against n checks.
clampSelected(sel, n) ==
    IF n > 0
    THEN IF sel >= n THEN n - 1 ELSE sel
    ELSE 0

\* What one call of Update reports: its message, its commands, the URL opened.
Handled(m, c, u) ==
    /\ msg' = m
    /\ cmd' = c
    /\ opened' = u
    /\ shownBefore' = IF m.type = "KeyMsg" /\ m.key = "s"
                      THEN IF shownBefore = << >> THEN << navChecks >>
                           ELSE << shownBefore[Len(shownBefore)], navChecks >>
                      ELSE << >>
    /\ UNCHANGED out

NoneIssued == UNCHANGED <<listCmds, dataCmds, ticks>>

\* ---------------------------------------------------------- key presses
\* case tea.KeyCtrlC: return m, tea.Quit
KeyCtrlC ==
    /\ run = "running"
    /\ Handled(KeyMsg("ctrl+c"), << Quit >>, "")
    /\ run' = "quit"
    /\ NoneIssued
    /\ UNCHANGED state

\* Mutant of KeyQ: the key is swallowed and the session keeps running.
KeyQ_keepsRunning ==
    /\ run = "running"
    /\ Handled(KeyMsg("q"), NoCmd, "")
    /\ NoneIssued
    /\ UNCHANGED <<state, run>>

\* case "q": return m, tea.Quit
KeyQ ==
    /\ run = "running"
    /\ Handled(KeyMsg("q"), << Quit >>, "")
    /\ run' = "quit"
    /\ NoneIssued
    /\ UNCHANGED state

\* The navigation keys: the new selection, then the scroll maintenance.
Navigate(k, sel) ==
    /\ run = "running"
    /\ selected' = sel
    /\ scrollOff' = scrollAfter(mode, sel)
    /\ Handled(KeyMsg(k), NoCmd, "")
    /\ NoneIssued
    /\ UNCHANGED <<mode, repo, prNumber, interval, prData, err, width, height,
                   prs, loading, hideSkipped, canGoBack, run>>

KeyUp == Navigate("up", selectedUp(selected))

KeyK == Navigate("k", selectedUp(selected))

KeyDown == Navigate("down", selectedDown(selected))

KeyJ == Navigate("j", selectedDown(selected))

\* Mutant of pickedPR: the first entry, whatever is selected.
pickedPR_first == prs[1]

\* pr := m.prs[m.selected]
pickedPR == prs[selected + 1]

\* case tea.KeyEnter, Selecting: view the selected pull request.
EnterSelecting ==
    /\ mode = modeSelecting
    /\ IF Len(prs) > 0
       THEN IF selected + 1 \in DOMAIN prs
            THEN LET pr == pickedPR
                     r == pr.Repo
                     n == Sprintf_d(pr.Number)
                 IN /\ fetchesInFlight < MaxFetches
                    /\ ticks < MaxTicks
                    /\ repo' = r
                    /\ prNumber' = n
                    /\ mode' = modeViewing
                    /\ selected' = 0
                    /\ scrollOff' = 0
                    /\ prData' = NoData
                    /\ err' = NoErr
                    /\ Handled(KeyMsg("enter"),
                               << fetchCmd(r, n), tickCmd(interval) >>, "")
                    /\ dataCmds' = [dataCmds EXCEPT ![Target(r, n)] = @ + 1]
                    /\ ticks' = ticks + 1
                    /\ UNCHANGED <<interval, width, height, prs, loading,
                                   hideSkipped, canGoBack, run, listCmds>>
            ELSE \* m.prs[m.selected] is out of range
                 /\ run' = "panic"
                 /\ Handled(KeyMsg("enter"), NoCmd, "")
                 /\ NoneIssued
                 /\ UNCHANGED state
       ELSE /\ Handled(KeyMsg("enter"), NoCmd, "")
            /\ NoneIssued
            /\ UNCHANGED <<state, run>>

\* Mutant of EnterViewing: the selection indexes the unfiltered check list.
EnterViewing_unfiltered ==
    /\ mode # modeSelecting
    /\ LET checks == prData.Checks
       IN IF ~prData.nil /\ Len(checks) > 0
          THEN IF selected + 1 \in DOMAIN checks
               THEN /\ Handled(KeyMsg("enter"), NoCmd,
                               checks[selected + 1].DetailsURL)
                    /\ UNCHANGED run
               ELSE /\ Handled(KeyMsg("enter"), NoCmd, "")
                    /\ run' = "panic"
          ELSE /\ Handled(KeyMsg("enter"), NoCmd, "")
               /\ UNCHANGED run
    /\ NoneIssued
    /\ UNCHANGED state

\* case tea.KeyEnter, Viewing: open the details of the selected check.
EnterViewing ==
    /\ mode # modeSelecting
    /\ LET checks == navChecks
       IN IF ~prData.nil /\ Len(checks) > 0
          THEN IF selected + 1 \in DOMAIN checks
               THEN /\ Handled(KeyMsg("enter"), NoCmd,
                               checks[selected + 1].DetailsURL)
                    /\ UNCHANGED run
               ELSE \* checks[m.selected] is out of range
                    /\ Handled(KeyMsg("enter"), NoCmd, "")
                    /\ run' = "panic"
          ELSE /\ Handled(KeyMsg("enter"), NoCmd, "")
               /\ UNCHANGED run
    /\ NoneIssued
    /\ UNCHANGED state

KeyEnter ==
    /\ run = "running"
    /\ \/ EnterSelecting
       \/ EnterViewing

\* Mutant of mayGoBack: the capability is not consulted.
mayGoBack_always == mode = modeViewing

\* Going back is for Viewing, in a session that was started in the picker.
mayGoBack == mode = modeViewing /\ canGoBack

\* Mutant of KeyEsc: the data of the pull request left behind is kept.
KeyEsc_keepsData ==
    /\ run = "running"
    /\ IF mayGoBack
       THEN /\ fetchesInFlight < MaxFetches
            /\ mode' = modeSelecting
            /\ selected' = 0
            /\ scrollOff' = 0
            /\ loading' = TRUE
            /\ Handled(KeyMsg("esc"), << fetchPRListCmd >>, "")
            /\ listCmds' = listCmds + 1
            /\ UNCHANGED <<repo, prNumber, interval, prData, err, width, height,
                           prs, hideSkipped, canGoBack, run, dataCmds, ticks>>
       ELSE /\ Handled(KeyMsg("esc"), NoCmd, "")
            /\ NoneIssued
            /\ UNCHANGED <<state, run>>

\* Mutant of KeyEsc: going back abandons the data fetches in flight.
KeyEsc_cancelsFetches ==
    /\ run = "running"
    /\ IF mayGoBack
       THEN /\ listCmds < MaxFetches
            /\ mode' = modeSelecting
            /\ selected' = 0
            /\ scrollOff' = 0
            /\ prData' = NoData
            /\ loading' = TRUE
            /\ Handled(KeyMsg("esc"), << fetchPRListCmd >>, "")
            /\ listCmds' = listCmds + 1
            /\ dataCmds' = NoneInFlight
            /\ UNCHANGED <<repo, prNumber, interval, err, width, height, prs,
                           hideSkipped, canGoBack, run, ticks>>
       ELSE /\ Handled(KeyMsg("esc"), NoCmd, "")
            /\ NoneIssued
            /\ UNCHANGED <<state, run>>

\* Esc: back to the list.
KeyEsc ==
    /\ run = "running"
    /\ IF mayGoBack
       THEN /\ fetchesInFlight < MaxFetches
            /\ mode' = modeSelecting
            /\ selected' = 0
            /\ scrollOff' = 0
            /\ prData' = NoData
            /\ loading' = TRUE
            /\ Handled(KeyMsg("esc"), << fetchPRListCmd >>, "")
            /\ listCmds' = listCmds + 1
            /\ UNCHANGED <<repo, prNumber, interval, err, width, height, prs,
                           hideSkipped, canGoBack, run, dataCmds, ticks>>
       ELSE /\ Handled(KeyMsg("esc"), NoCmd, "")
            /\ NoneIssued
            /\ UNCHANGED <<state, run>>

\* Mutant of KeyR: a refresh in Viewing raises the loading flag.
KeyR_loadingInViewing ==
    /\ run = "running"
    /\ fetchesInFlight < MaxFetches
    /\ loading' = TRUE
    /\ IF mode = modeSelecting
       THEN /\ Handled(KeyMsg("r"), << fetchPRListCmd >>, "")
            /\ listCmds' = listCmds + 1
            /\ UNCHANGED dataCmds
       ELSE /\ Handled(KeyMsg("r"), << fetchCmd(repo, prNumber) >>, "")
            /\ dataCmds' = [dataCmds EXCEPT ![Target(repo, prNumber)] = @ + 1]
            /\ UNCHANGED listCmds
    /\ UNCHANGED <<mode, repo, prNumber, interval, prData, err, selected, width,
                   height, prs, hideSkipped, scrollOff, canGoBack, run, ticks>>

\* case "r": fetch again.
KeyR ==
    /\ run = "running"
    /\ IF mode = modeSelecting
       THEN /\ fetchesInFlight < MaxFetches
            /\ loading' = TRUE
            /\ Handled(KeyMsg("r"), << fetchPRListCmd >>, "")
            /\ listCmds' = listCmds + 1
            /\ UNCHANGED <<mode, repo, prNumber, interval, prData, err,
                           selected, width, height, prs, hideSkipped,
                           scrollOff, canGoBack, run, dataCmds, ticks>>
       ELSE /\ fetchesInFlight < MaxFetches
            /\ Handled(KeyMsg("r"), << fetchCmd(repo, prNumber) >>, "")
            /\ dataCmds' = [dataCmds EXCEPT ![Target(repo, prNumber)] = @ + 1]
            /\ UNCHANGED <<state, run, listCmds, ticks>>

\* Mutant of KeyS: the selection and the scroll offset are kept.
KeyS_keepsSelection ==
    /\ run = "running"
    /\ IF mode = modeViewing
       THEN /\ hideSkipped' = ~hideSkipped
            /\ UNCHANGED <<mode, repo, prNumber, interval, prData, err, width,
                           height, prs, loading, canGoBack, selected, scrollOff>>
       ELSE UNCHANGED state
    /\ Handled(KeyMsg("s"), NoCmd, "")
    /\ NoneIssued
    /\ UNCHANGED run

\* Mutant of KeyS: the key shows the Skipped checks and never hides them again.
KeyS_showsOnly ==
    /\ run = "running"
    /\ IF mode = modeViewing
       THEN /\ hideSkipped' = FALSE
            /\ selected' = 0
            /\ scrollOff' = 0
            /\ UNCHANGED <<mode, repo, prNumber, interval, prData, err, width,
                           height, prs, loading, canGoBack>>
       ELSE UNCHANGED state
    /\ Handled(KeyMsg("s"), NoCmd, "")
    /\ NoneIssued
    /\ UNCHANGED run

\* 's': show or hide the Skipped checks, in Viewing only.
KeyS ==
    /\ run = "running"
    /\ IF mode = modeViewing
       THEN /\ hideSkipped' = ~hideSkipped
            /\ selected' = 0
            /\ scrollOff' = 0
            /\ UNCHANGED <<mode, repo, prNumber, interval, prData, err, width,
                           height, prs, loading, canGoBack>>
       ELSE UNCHANGED state
    /\ Handled(KeyMsg("s"), NoCmd, "")
    /\ NoneIssued
    /\ UNCHANGED run

\* ------------------------------------------------------- fetch results
\* Mutant of listPrs: a failed fetch empties the list.
listPrs_clearedOnError(p, e) == IF e # NoErr THEN << >> ELSE p

\* case prListMsg, m.prs: replaced by a successful result.
listPrs(p, e) == IF e # NoErr THEN prs ELSE p

\* Mutant of listSelected: the selection is not reset.
listSelected_kept(e) == selected

\* case prListMsg, m.selected: reset by a successful result.
listSelected(e) == IF e # NoErr THEN selected ELSE 0

\* Mutant of RecvPRList: a list result leaves the loading flag as it is.
RecvPRList_keepsLoading(p, e) ==
    /\ run = "running"
    /\ listCmds > 0
    /\ listCmds' = listCmds - 1
    /\ err' = e
    /\ prs' = listPrs(p, e)
    /\ selected' = listSelected(e)
    /\ scrollOff' = scrollAfter(mode, listSelected(e))
    /\ Handled(prListMsg(p, e), NoCmd, "")
    /\ UNCHANGED <<mode, repo, prNumber, interval, prData, width, height,
                   loading, hideSkipped, canGoBack, run, dataCmds, ticks>>

\* case prListMsg: the result of one fetchPRListCmd that was in flight.
RecvPRList(p, e) ==
    /\ run = "running"
    /\ listCmds > 0
    /\ listCmds' = listCmds - 1
    /\ loading' = FALSE
    /\ err' = e                 \* m.err = msg.err, or nil for a success
    /\ prs' = listPrs(p, e)
    /\ selected' = listSelected(e)
    /\ scrollOff' = scrollAfter(mode, listSelected(e))
    /\ Handled(prListMsg(p, e), NoCmd, "")
    /\ UNCHANGED <<mode, repo, prNumber, interval, prData, width, height,
                   hideSkipped, canGoBack, run, dataCmds, ticks>>

PRListResult ==
    \/ \E p \in PRLists : RecvPRList(p, NoErr)
    \/ RecvPRList(<< >>, ListErr)

\* Mutant of dataPrData: a failed fetch drops the stored data.
dataPrData_droppedOnError(d, e) == d

\* Mutant of dataPrData: data that is stored is not replaced.
dataPrData_firstWins(d, e) == IF e # NoErr \/ ~prData.nil THEN prData ELSE d

\* case prDataMsg, m.prData: replaced by a successful result.
dataPrData(d, e) == IF e # NoErr THEN prData ELSE d

\* Mutant of dataSelected: the selection is not clamped into the new checks.
dataSelected_unclamped(d, e) == selected

\* case prDataMsg, m.selected: clamped into the checks of a successful result.
dataSelected(d, e) ==
    IF e # NoErr THEN selected
    ELSE clampSelected(selected, Len(filteredChecks(d, hideSkipped)))

\* Mutant of RecvPRData: a successful result leaves a stored error in place.
RecvPRData_keepsError(t, d, e) ==
    /\ run = "running"
    /\ dataCmds[t] > 0
    /\ dataCmds' = [dataCmds EXCEPT ![t] = @ - 1]
    /\ err' = IF e # NoErr THEN e ELSE err
    /\ prData' = dataPrData(d, e)
    /\ selected' = dataSelected(d, e)
    /\ scrollOff' = scrollAfter(mode, dataSelected(d, e))
    /\ Handled(prDataMsg(d, e), NoCmd, "")
    /\ UNCHANGED <<mode, repo, prNumber, interval, width, height, prs, loading,
                   hideSkipped, canGoBack, run, listCmds, ticks>>

\* case prDataMsg: the result of one fetchCmd that was in flight for target t.
RecvPRData(t, d, e) ==
    /\ run = "running"
    /\ dataCmds[t] > 0
    /\ dataCmds' = [dataCmds EXCEPT ![t] = @ - 1]
    /\ err' = e                 \* m.err = msg.err, or nil for a success
    /\ prData' = dataPrData(d, e)
    /\ selected' = dataSelected(d, e)
    /\ scrollOff' = scrollAfter(mode, dataSelected(d, e))
    /\ Handled(prDataMsg(d, e), NoCmd, "")
    /\ UNCHANGED <<mode, repo, prNumber, interval, width, height, prs, loading,
                   hideSkipped, canGoBack, run, listCmds, ticks>>

PRDataResult ==
    \E t \in Targets :
        \/ \E cs \in CheckLists :
              RecvPRData(t, PRData(prURL(t.repo, t.prNumber), cs), NoErr)
        \/ RecvPRData(t, NoData, DataErr)

\* ------------------------------------------------------ timer and resize
\* Mutant of Tick: the fetch is issued but the timer is not armed again.
Tick_notRearmed ==
    /\ run = "running"
    /\ ticks > 0
    /\ fetchesInFlight < MaxFetches
    /\ dataCmds' = [dataCmds EXCEPT ![Target(repo, prNumber)] = @ + 1]
    /\ ticks' = ticks - 1
    /\ Handled(tickMsg, << fetchCmd(repo, prNumber) >>, "")
    /\ UNCHANGED <<state, run, listCmds>>

\* Mutant of Tick: while a fetch is outstanding the tick only arms the timer.
Tick_skipsWhenBusy ==
    /\ run = "running"
    /\ ticks > 0
    /\ fetchesInFlight < MaxFetches
    /\ ticks' = (ticks - 1) + 1
    /\ IF dataInFlight > 0
       THEN /\ Handled(tickMsg, << tickCmd(interval) >>, "")
            /\ UNCHANGED dataCmds
       ELSE /\ Handled(tickMsg, << fetchCmd(repo, prNumber), tickCmd(interval) >>, "")
            /\ dataCmds' = [dataCmds EXCEPT ![Target(repo, prNumber)] = @ + 1]
    /\ UNCHANGED <<state, run, listCmds>>

\* case tickMsg: return m, tea.Batch(m.fetchCmd(), m.tickCmd())
Tick ==
    /\ run = "running"
    /\ ticks > 0
    /\ fetchesInFlight < MaxFetches
    /\ dataCmds' = [dataCmds EXCEPT ![Target(repo, prNumber)] = @ + 1]
    /\ ticks' = (ticks - 1) + 1
    /\ Handled(tickMsg, << fetchCmd(repo, prNumber), tickCmd(interval) >>, "")
    /\ UNCHANGED <<state, run, listCmds>>

\* Mutant of Resize: the scroll offset is brought back inside the list.
Resize_clampsScroll ==
    /\ run = "running"
    /\ \E w \in Widths, h \in Heights :
          /\ width' = w
          /\ height' = h
          /\ scrollOff' = IF scrollOff > Len(navChecks) - visibleRows(h)
                          THEN IF Len(navChecks) > visibleRows(h)
                               THEN Len(navChecks) - visibleRows(h) ELSE 0
                          ELSE scrollOff
          /\ Handled(WindowSizeMsg(w, h), NoCmd, "")
    /\ NoneIssued
    /\ UNCHANGED <<mode, repo, prNumber, interval, prData, err, selected, prs,
                   loading, hideSkipped, canGoBack, run>>

\* case tea.WindowSizeMsg: m.width = msg.Width; m.height = msg.Height
Resize ==
    /\ run = "running"
    /\ \E w \in Widths, h \in Heights :
          /\ width' = w
          /\ height' = h
          /\ Handled(WindowSizeMsg(w, h), NoCmd, "")
    /\ NoneIssued
    /\ UNCHANGED <<mode, repo, prNumber, interval, prData, err, selected, prs,
                   loading, hideSkipped, scrollOff, canGoBack, run>>

\* ------------------------------------------------------- specification
Next ==
    \/ KeyCtrlC
    \/ KeyQ
    \/ KeyUp
    \/ KeyK
    \/ KeyDown
    \/ KeyJ
    \/ KeyEnter
    \/ KeyEsc
    \/ KeyR
    \/ KeyS
    \/ PRListResult
    \/ PRDataResult
    \/ Tick
    \/ Resize

Spec == Init /\ [][Next]_vars

\* The same program under the runtime's scheduling: a timer that is armed
\* fires, and a fetch command that was started reports its result.
FairSpec ==
    /\ Spec
    /\ SF_vars(Tick)
    /\ WF_vars(PRListResult)
    /\ WF_vars(PRDataResult)

\* ------------------------------------------------ direct calls on a model
\* ui_test.go builds a model with newModel, assigns its fields (a selection
\* inside the filtered list among them) and calls filteredChecks(), View() or
\* Update with Enter on it; the check lists it assigns are in any order,
\* Skipped checks between the others included.
CheckName(i) ==
    CASE i = 1 -> "a" [] i = 2 -> "b" [] i = 3 -> "c" [] i = 4 -> "d"
      [] OTHER -> "e"

\* Every check but the second has a details reference.
CheckURL(i) == IF i = 2 THEN "" ELSE "http://" \o CheckName(i)

AnyCheckLists ==
    UNION { { [i \in 1 .. n |-> Check(CheckName(i), f[i], CheckURL(i))] :
                f \in [1 .. n -> {Running, Fail, Pass, Skipped}] } :
            n \in 0 .. MaxChecks }

InitCall ==
    /\ mode = modeViewing
    /\ repo = ArgTarget.repo
    /\ prNumber = ArgTarget.prNumber
    /\ interval \in Intervals
    /\ prData \in {NoData} \cup { PRData("", cs) : cs \in AnyCheckLists }
    /\ err = NoErr
    /\ selected \in 0 .. MaxChecks
    /\ width = TestWidth
    /\ height \in Heights \cup {TestHeight}
    /\ prs = << >>
    /\ loading = FALSE
    /\ hideSkipped \in BOOLEAN
    /\ selected < Len(filteredChecks(prData, hideSkipped)) \/ selected = 0
    /\ scrollOff = 0
    /\ canGoBack = FALSE
    /\ msg = NoMsg("init")
    /\ cmd = NoCmd
    /\ opened = ""
    /\ run = "running"
    /\ listCmds = 0
    /\ dataCmds = NoneInFlight
    /\ ticks = 0
    /\ shownBefore = << >>
    /\ out = NoOut

\* for _, c := range checks { counts[c.Status]++ }
RECURSIVE countStatus(_, _)
countStatus(cs, st) ==
    IF cs = << >> THEN 0
    ELSE (IF Head(cs).Status = st THEN 1 ELSE 0) + countStatus(Tail(cs), st)

\* Mutant of viewCounts: the summary counts the rows that are shown.
viewCounts_ofShown(cs) ==
    LET shown == filteredChecks(PRData("", cs), hideSkipped)
    IN [total |-> Len(shown),
        passed |-> countStatus(shown, Pass),
        running |-> countStatus(shown, Running),
        failed |-> countStatus(shown, Fail),
        skipped |-> countStatus(shown, Skipped)]

\* View, "Summary": checks := m.prData.Checks; total and the count per status.
viewCounts(cs) ==
    [total |-> Len(cs),
     passed |-> countStatus(cs, Pass),
     running |-> countStatus(cs, Running),
     failed |-> countStatus(cs, Fail),
     skipped |-> countStatus(cs, Skipped)]

\* View, "(N hidden)": what the filter removed from the table.
viewHidden(pd, hide) == Len(pd.Checks) - Len(filteredChecks(pd, hide))

\* View, "Table rows": the filtered checks from the scroll offset on, at
\* most maxRows of them.
viewRows(pd, hide, off, h) ==
    LET checks == filteredChecks(pd, hide)
        last == IF off + visibleRows(h) < Len(checks)
                THEN off + visibleRows(h) ELSE Len(checks)
    IN SubSeq(checks, off + 1, last)

CallFilteredChecks ==
    /\ out' = Out("filteredChecks", filteredChecks(prData, hideSkipped),
                  NoCounts, 0, << >>)
    /\ UNCHANGED <<state, msg, cmd, opened, run, listCmds, dataCmds, ticks,
                   shownBefore>>

\* viewSelecting: the screen of the picker, by the first test that applies.
viewSelectingScreen ==
    IF width = 0 THEN "placeholder"
    ELSE IF err # NoErr THEN "error"
    ELSE IF loading THEN "fetching"
    ELSE IF Len(prs) = 0 THEN "none"
    ELSE "list"

\* View: the screen drawn, by the first test that applies; in Viewing any
\* stored data, an empty check list too, is drawn as the summary and table.
viewScreen ==
    IF mode = modeSelecting THEN viewSelectingScreen
    ELSE IF width = 0 THEN "placeholder"
    ELSE IF err # NoErr THEN "error"
    ELSE IF prData.nil THEN "fetching"
    ELSE "list"

\* View() of a model: the screen, and for the table what it shows.
CallView ==
    /\ out' = IF mode = modeViewing /\ viewScreen = "list"
              THEN [Out("View", << >>, viewCounts(prData.Checks),
                        viewHidden(prData, hideSkipped),
                        viewRows(prData, hideSkipped, scrollOff, height))
                      EXCEPT !.screen = viewScreen]
              ELSE [Out("View", << >>, NoCounts, 0, << >>)
                      EXCEPT !.screen = viewScreen]
    /\ UNCHANGED <<state, msg, cmd, opened, run, listCmds, dataCmds, ticks,
                   shownBefore>>

\* Update(tea.KeyMsg{Type: tea.KeyEnter}) on such a model.
CallEnter ==
    /\ run = "running"
    /\ EnterViewing
    /\ UNCHANGED out

CallNext ==
    \/ CallFilteredChecks
    \/ CallView
    \/ CallEnter

CallSpec == InitCall /\ [][CallNext]_vars

\* -------------------------------------------------- rendering any model
\* TestViewSelecting and TestView assign width, loading, err, prs and prData
\* of a new model in either mode and render it.
InitView ==
    /\ mode \in {modeSelecting, modeViewing}
    /\ repo = ArgTarget.repo
    /\ prNumber = ArgTarget.prNumber
    /\ interval \in Intervals
    /\ prData \in {NoData} \cup { PRData("", cs) : cs \in CheckLists }
    /\ err \in {NoErr, DataErr}
    /\ selected = 0
    /\ width \in {0, TestWidth}
    /\ height = TestHeight
    /\ prs \in PRLists
    /\ loading \in BOOLEAN
    /\ hideSkipped \in BOOLEAN
    /\ scrollOff = 0
    /\ canGoBack = (mode = modeSelecting)
    /\ msg = NoMsg("init")
    /\ cmd = NoCmd
    /\ opened = ""
    /\ run = "running"
    /\ listCmds = 0
    /\ dataCmds = NoneInFlight
    /\ ticks = 0
    /\ shownBefore = << >>
    /\ out = NoOut

ViewNext == CallView

ViewSpec == InitView /\ [][ViewNext]_vars

\* ------------------------------------------------------------------ gh.go
\* Strings are read character by character: s[i] is SubSeq(s, i, i).
\* unicode.IsSpace, for the ASCII characters.
isSpace(c) == c \in {" ", "\t", "\n", "\r", "\f"}

\* unicode.ToUpper, for the ASCII characters.
upperChar(c) ==
    CASE c = "a" -> "A" [] c = "b" -> "B" [] c = "c" -> "C" [] c = "d" -> "D"
      [] c = "e" -> "E" [] c = "f" -> "F" [] c = "g" -> "G" [] c = "h" -> "H"
      [] c = "i" -> "I" [] c = "j" -> "J" [] c = "k" -> "K" [] c = "l" -> "L"
      [] c = "m" -> "M" [] c = "n" -> "N" [] c = "o" -> "O" [] c = "p" -> "P"
      [] c = "q" -> "Q" [] c = "r" -> "R" [] c = "s" -> "S" [] c = "t" -> "T"
      [] c = "u" -> "U" [] c = "v" -> "V" [] c = "w" -> "W" [] c = "x" -> "X"
      [] c = "y" -> "Y" [] c = "z" -> "Z" [] OTHER -> c

\* unicode.ToLower, for the ASCII characters.
lowerChar(c) ==
    CASE c = "A" -> "a" [] c = "B" -> "b" [] c = "C" -> "c" [] c = "D" -> "d"
      [] c = "E" -> "e" [] c = "F" -> "f" [] c = "G" -> "g" [] c = "H" -> "h"
      [] c = "I" -> "i" [] c = "J" -> "j" [] c = "K" -> "k" [] c = "L" -> "l"
      [] c = "M" -> "m" [] c = "N" -> "n" [] c = "O" -> "o" [] c = "P" -> "p"
      [] c = "Q" -> "q" [] c = "R" -> "r" [] c = "S" -> "s" [] c = "T" -> "t"
      [] c = "U" -> "u" [] c = "V" -> "v" [] c = "W" -> "w" [] c = "X" -> "x"
      [] c = "Y" -> "y" [] c = "Z" -> "z" [] OTHER -> c

\* strings.ToUpper
RECURSIVE ToUpper(_)
ToUpper(s) ==
    IF Len(s) = 0 THEN ""
    ELSE upperChar(SubSeq(s, 1, 1)) \o ToUpper(SubSeq(s, 2, Len(s)))

\* strings.ToLower
RECURSIVE ToLower(_)
ToLower(s) ==
    IF Len(s) = 0 THEN ""
    ELSE lowerChar(SubSeq(s, 1, 1)) \o ToLower(SubSeq(s, 2, Len(s)))

RECURSIVE TrimLeft(_)
TrimLeft(s) ==
    IF Len(s) > 0 /\ isSpace(SubSeq(s, 1, 1))
    THEN TrimLeft(SubSeq(s, 2, Len(s))) ELSE s

RECURSIVE TrimRight(_)
TrimRight(s) ==
    IF Len(s) > 0 /\ isSpace(SubSeq(s, Len(s), Len(s)))
    THEN TrimRight(SubSeq(s, 1, Len(s) - 1)) ELSE s

\* strings.TrimSpace
TrimSpace(s) == TrimRight(TrimLeft(s))

\* Mutant of normalizeStatus: the raw status is not trimmed.
normalizeStatus_untrimmed(raw) ==
    LET r == ToUpper(raw)
    IN CASE r \in {"SUCCESS", "PASS"} -> Pass
         [] r \in {"FAILURE", "FAIL", "ERROR", "TIMED_OUT", "ACTION_REQUIRED",
                   "STARTUP_FAILURE"} -> Fail
         [] r \in {"IN_PROGRESS", "RUNNING", "PENDING", "QUEUED", "WAITING",
                   "REQUESTED"} -> Running
         [] r \in {"SKIPPED", "CANCELLED", "NEUTRAL", "STALE"} -> Skipped
         [] r = "" -> Running
         [] OTHER -> Running

\* normalizeStatus: raw = strings.ToUpper(strings.TrimSpace(raw)); switch raw.
normalizeStatus(raw) ==
    LET r == ToUpper(TrimSpace(raw))
    IN CASE r \in {"SUCCESS", "PASS"} -> Pass
         [] r \in {"FAILURE", "FAIL", "ERROR", "TIMED_OUT", "ACTION_REQUIRED",
                   "STARTUP_FAILURE"} -> Fail
         [] r \in {"IN_PROGRESS", "RUNNING", "PENDING", "QUEUED", "WAITING",
                   "REQUESTED"} -> Running
         [] r \in {"SKIPPED", "CANCELLED", "NEUTRAL", "STALE"} -> Skipped
         [] r = "" -> Running
         [] OTHER -> Running

\* Mutant of itemStatus: the status is read before the conclusion.
itemStatus_statusFirst(item) ==
    IF item.Status # "" THEN normalizeStatus(item.Status)
    ELSE IF item.Conclusion # "" THEN normalizeStatus(item.Conclusion)
    ELSE normalizeStatus(item.State)

\* fetchPRData: the status of one item of statusCheckRollup.
itemStatus(item) ==
    IF item.Conclusion # "" THEN normalizeStatus(item.Conclusion)
    ELSE IF item.Status # "" THEN normalizeStatus(item.Status)
    ELSE normalizeStatus(item.State)

\* The raw statuses of the mapping, and some that are not in it.
KnownTokens ==
    {"SUCCESS", "PASS", "FAILURE", "FAIL", "ERROR", "TIMED_OUT",
     "ACTION_REQUIRED", "STARTUP_FAILURE", "IN_PROGRESS", "RUNNING", "PENDING",
     "QUEUED", "WAITING", "REQUESTED", "SKIPPED", "CANCELLED", "NEUTRAL",
     "STALE"}

OtherTokens == {"", "COMPLETED", "SOMETHING_ELSE", "IN PROGRESS", "PASSED"}

\* A token as written, in lower case, and with a capital first letter.
Spellings(tok) ==
    {tok, ToLower(tok),
     IF Len(tok) = 0 THEN ""
     ELSE SubSeq(tok, 1, 1) \o ToLower(SubSeq(tok, 2, Len(tok)))}

\* The strings of at most n whitespace characters.
RECURSIVE Pads(_)
Pads(n) ==
    IF n = 0 THEN {""}
    ELSE Pads(n - 1) \cup {p \o c : p \in Pads(n - 1), c \in {" ", "\t", "\n"}}

\* What the upstream puts in the conclusion, status and state of an item.
ItemTokens == {"", "SUCCESS", "FAILURE", "IN_PROGRESS", "SKIPPED", "COMPLETED"}

\* ------------------------------------------- fetchPRData: one item, sorted
\* An item of statusCheckRollup.
rollupItem(tn, nm, ctx, wf, c, s, st, sa, ca, du, tu) ==
    [Typename |-> tn, Name |-> nm, Context |-> ctx, WorkflowName |-> wf,
     Conclusion |-> c, Status |-> s, State |-> st, StartedAt |-> sa,
     CompletedAt |-> ca, DetailsURL |-> du, TargetURL |-> tu]

\* The characters of the names and timestamps, in byte order.
ByteOrder ==
    <<" ", "(", ")", "-", ".", "/", "0", "1", "2", "3", "4", "5", "6", "7",
      "8", "9", ":", "A", "B", "C", "D", "E", "F", "G", "H", "I", "J", "K",
      "L", "M", "N", "O", "P", "Q", "R", "S", "T", "U", "V", "W", "X", "Y",
      "Z", "_", "a", "b", "c", "d", "e", "f", "g", "h", "i", "j", "k", "l",
      "m", "n", "o", "p", "q", "r", "s", "t", "u", "v", "w", "x", "y", "z">>

byteOf(c) == CHOOSE i \in 1..Len(ByteOrder) : ByteOrder[i] = c

\* a < b on Go strings: byte-wise lexicographic, a proper prefix first.
RECURSIVE lessString(_, _)
lessString(a, b) ==
    IF Len(b) = 0 THEN FALSE
    ELSE IF Len(a) = 0 THEN TRUE
    ELSE LET x == byteOf(SubSeq(a, 1, 1))
             y == byteOf(SubSeq(b, 1, 1))
         IN IF x # y THEN x < y
            ELSE lessString(SubSeq(a, 2, Len(a)), SubSeq(b, 2, Len(b)))

\* strings.HasPrefix
HasPrefix(s, p) == Len(s) >= Len(p) /\ SubSeq(s, 1, Len(p)) = p

isDigit(c) == c \in {"0", "1", "2", "3", "4", "5", "6", "7", "8", "9"}

digitVal(c) == byteOf(c) - byteOf("0")

\* The number two digits of s at position i spell.
twoDigits(s, i) == 10 * digitVal(SubSeq(s, i, i)) + digitVal(SubSeq(s, i + 1, i + 1))

\* time.Parse(time.RFC3339, s) for UTC timestamps "YYYY-MM-DDTHH:MM:SSZ":
\* ok is err == nil, sec the seconds since the start of the month.  The
\* timestamps handed to it are of one month.
timeParse(s) ==
    LET wellFormed ==
            /\ Len(s) = 20
            /\ \A i \in {1, 2, 3, 4, 6, 7, 9, 10, 12, 13, 15, 16, 18, 19} :
                  isDigit(SubSeq(s, i, i))
            /\ SubSeq(s, 5, 5) = "-" /\ SubSeq(s, 8, 8) = "-"
            /\ SubSeq(s, 11, 11) = "T"
            /\ SubSeq(s, 14, 14) = ":" /\ SubSeq(s, 17, 17) = ":"
            /\ SubSeq(s, 20, 20) = "Z"
        inRange ==
            /\ twoDigits(s, 6) \in 1..12
            /\ twoDigits(s, 9) \in 1..31
            /\ twoDigits(s, 12) \in 0..23
            /\ twoDigits(s, 15) \in 0..59
            /\ twoDigits(s, 18) \in 0..59
    IN IF wellFormed /\ inRange
       THEN [ok |-> TRUE,
             sec |-> ((twoDigits(s, 9) * 24 + twoDigits(s, 12)) * 60
                        + twoDigits(s, 15)) * 60 + twoDigits(s, 18)]
       ELSE [ok |-> FALSE, sec |-> 0]

\* fmt.Sprintf("%02d", n) for n >= 0.
Sprintf_02d(n) == IF n < 10 THEN "0" \o Digit(n) ELSE Sprintf_d(n)

formatDuration(totalSeconds) ==
    LET minutes == totalSeconds \div 60
        seconds == totalSeconds % 60
    IN IF minutes > 0
       THEN Sprintf_d(minutes) \o "m" \o Sprintf_02d(seconds) \o "s"
       ELSE Sprintf_d(seconds) \o "s"

\* The zero time.Time.
ZeroTime == -1

\* parseDuration: the duration text, the start and the completed flag; now
\* is what time.Now() reads.
parseDuration(startedAt, completedAt, now) ==
    LET start == timeParse(startedAt)
        end == timeParse(completedAt)
        completed == completedAt # "" /\ end.ok
        delta == (IF completed THEN end.sec ELSE now) - start.sec
    IN IF startedAt = "" \/ ~start.ok
       THEN [dur |-> "-", start |-> ZeroTime, completed |-> FALSE]
       ELSE [dur |-> formatDuration(IF delta < 0 THEN 0 ELSE delta),
             start |-> start.sec, completed |-> completed]

\* fetchPRData: the name of the check of one item.
itemName(item) ==
    LET name == IF item.Name # "" THEN item.Name
                ELSE IF item.Context # "" THEN item.Context
                ELSE "unknown"
    IN IF item.WorkflowName # ""
       THEN name \o " (" \o item.WorkflowName \o ")"
       ELSE name

\* fetchPRData: a zero-value completedAt is no completedAt.
itemCompletedAt(item) ==
    IF HasPrefix(item.CompletedAt, "0001") THEN "" ELSE item.CompletedAt

\* Mutant of forceCompleted: the status is not looked at.
forceCompleted_anyStatus(item) ==
    itemCompletedAt(item) = "" /\ item.Typename = "StatusContext"

\* fetchPRData: forceCompleted of one item.
forceCompleted(item) ==
    /\ itemCompletedAt(item) = ""
    /\ item.Typename = "StatusContext"
    /\ itemStatus(item) # Running

\* fetchPRData: the Check appended for one item.
itemCheck(item, now) ==
    LET pd == parseDuration(item.StartedAt, itemCompletedAt(item), now)
    IN [Name |-> itemName(item),
        Status |-> itemStatus(item),
        Duration |-> IF forceCompleted(item) THEN "???" ELSE pd.dur,
        DetailsURL |-> IF item.DetailsURL # "" THEN item.DetailsURL
                       ELSE item.TargetURL,
        StartedAt |-> pd.start,
        Completed |-> IF forceCompleted(item) THEN TRUE ELSE pd.completed]

\* Mutant of less: the status is not compared.
less_byNameOnly(a, b) == lessString(a.Name, b.Name)

\* The less function handed to sort.Slice.
less(a, b) ==
    IF a.Status # b.Status THEN a.Status < b.Status
    ELSE lessString(a.Name, b.Name)

\* sort.Slice(checks, less): the outcomes its contract allows, which are the
\* rearrangements of checks in which no element is less than an earlier
\* one.  The sort is not guaranteed to be stable, so elements that less
\* does not order may come out either way round.
sortSlice(cs) ==
    {s \in {[i \in 1..Len(cs) |-> cs[p[i]]] : p \in Permutations(1..Len(cs))} :
        \A i, j \in 1..Len(s) : i < j => ~less(s[j], s[i])}

Timestamps ==
    {"", "2024-01-01T10:00:00Z", "2024-01-01T10:01:05Z", "yesterday"}

\* Clock readings: five seconds and a little over two minutes after the
\* first of the timestamps.
Nows ==
    {timeParse("2024-01-01T10:00:05Z").sec, timeParse("2024-01-01T10:02:10Z").sec}

\* Items of either class with every combination of status fields and
\* timestamps, one of them named by its context and one by its workflow.
TimedItems ==
    {rollupItem(tn, nc[1], nc[2], nc[3], c, s, st, sa, ca, "", "https://ci/1") :
        tn \in {"CheckRun", "StatusContext"},
        nc \in {<<"build", "", "">>, <<"", "ci/jenkins", "">>,
                <<"test", "", "CI">>, <<"", "", "">>},
        c \in {"", "FAILURE"}, s \in {"", "IN_PROGRESS"},
        st \in {"", "SUCCESS", "PENDING"},
        sa \in Timestamps \ {"2024-01-01T10:01:05Z"},
        ca \in Timestamps \cup {"0001-01-01T00:00:00Z"}}

\* Items that differ in name and conclusion, and a second run of one of
\* them, which differs from the first in its details URL only.
NamedItems ==
    {rollupItem("CheckRun", nm, "", "", c, "", "", "", "", "https://ci/1", "") :
        nm \in {"alpha", "beta", "zebra"},
        c \in {"SUCCESS", "FAILURE", "SKIPPED", "IN_PROGRESS"}}
      \cup {rollupItem("CheckRun", "alpha", "", "", "SUCCESS", "", "", "", "",
                       "https://ci/2", "")}

\* The responses: one item of any kind, or up to MaxItems named ones.
Rollups ==
    {<<i>> : i \in TimedItems}
        \cup UNION {[1..n -> NamedItems] : n \in 0..MaxItems}

\* data, err := fetchPRData(repo, prNumber) on a response that parses.
CallFetchPRData ==
    /\ out = NoOut
    /\ \E rollup \in Rollups, now \in Nows :
         LET checks == [i \in 1..Len(rollup) |-> itemCheck(rollup[i], now)]
         IN \E sorted \in sortSlice(checks) :
               out' = [NoOut EXCEPT !.fn = "fetchPRData",
                                    !.rollup = rollup,
                                    !.now = now,
                                    !.fetched = sorted]
    /\ UNCHANGED <<state, msg, cmd, opened, run, listCmds, dataCmds, ticks,
                   shownBefore>>

InitGh ==
    /\ \E d \in Intervals : newModel(ArgTarget.repo, ArgTarget.prNumber, d)
    /\ newFields(FALSE)
    /\ msg = NoMsg("init")
    /\ cmd = NoCmd
    /\ opened = ""
    /\ run = "running"
    /\ listCmds = 0
    /\ dataCmds = NoneInFlight
    /\ ticks = 0
    /\ shownBefore = << >>
    /\ out = NoOut

\* got := normalizeStatus(tt.input), one call for each case.
CallNormalizeStatus ==
    /\ out = NoOut
    /\ \E tok \in KnownTokens \cup OtherTokens :
         \E sp \in Spellings(tok), l \in Pads(MaxPad), r \in Pads(MaxPad) :
            out' = [NoOut EXCEPT !.fn = "normalizeStatus",
                                 !.raw = l \o sp \o r,
                                 !.token = tok,
                                 !.status = normalizeStatus(l \o sp \o r)]
    /\ UNCHANGED <<state, msg, cmd, opened, run, listCmds, dataCmds, ticks,
                   shownBefore>>

\* The status fetchPRData gives the check of one upstream item.
CallItemStatus ==
    /\ out = NoOut
    /\ \E c \in ItemTokens, st \in ItemTokens, sa \in ItemTokens :
          out' = [NoOut EXCEPT !.fn = "itemStatus",
                               !.item = ghCheckItem(c, st, sa),
                               !.status = itemStatus(ghCheckItem(c, st, sa))]
    /\ UNCHANGED <<state, msg, cmd, opened, run, listCmds, dataCmds, ticks,
                   shownBefore>>

GhNext ==
    \/ CallNormalizeStatus
    \/ CallItemStatus
    \/ CallFetchPRData

GhSpec == InitGh /\ [][GhNext]_vars

\* =================================================================== claims
Max(a, b) == IF a > b THEN a ELSE b

Min(a, b) == IF a < b THEN a ELSE b

\* The number of checks of a list that are not Skipped.
nonSkipped(cs) == Cardinality({i \in DOMAIN cs : cs[i].Status # Skipped})

\* The length of the filtered list of data pd when hide is the filter flag.
filteredCount(pd, hide) ==
    IF pd.nil THEN 0 ELSE IF hide THEN nonSkipped(pd.Checks) ELSE Len(pd.Checks)

\* The length of the collection the selection indexes in the current mode.
activeCount ==
    IF mode = modeSelecting THEN Len(prs) ELSE filteredCount(prData, hideSkipped)

IsKey(m, k) == m.type = "KeyMsg" /\ m.key = k

\* C1: in every reachable state the selection index is within [0, count-1]
\* when count > 0 and is 0 when count = 0, count being the length of the PR
\* list in Selecting and of the filtered check list in Viewing.
C1_SelectionInRange ==
    IF activeCount > 0
    THEN selected >= 0 /\ selected <= activeCount - 1
    ELSE selected = 0

\* C1 witness: 'down' was pressed on the last row of a filtered list that is
\* shorter than the check list, and the selection stayed on that row.
C1_Witness ==
    /\ IsKey(msg, "down")
    /\ mode = modeViewing
    /\ hideSkipped
    /\ activeCount < Len(prData.Checks)
    /\ activeCount >= 2
    /\ selected = activeCount - 1

\* C2 (as claimed): in every reachable state the scroll offset is within
\* [0, max(0, filteredCount - visibleRows)].
C2_ScrollInRange ==
    /\ scrollOff >= 0
    /\ scrollOff <= Max(0, filteredCount(prData, hideSkipped) - visibleRows(height))

\* C3 (as claimed): after any change of the selection index in Viewing over a
\* filtered list of length N, scrollOff <= selected <= scrollOff + rows - 1
\* when N > rows, and scrollOff = 0 when N <= rows.
C3_ScrollFollowsSelection ==
    [][(mode' = modeViewing /\ selected' # selected)
        => LET N == filteredCount(prData', hideSkipped')
               rows == visibleRows(height')
           IN IF N > rows
              THEN scrollOff' <= selected' /\ selected' <= scrollOff' + rows - 1
              ELSE scrollOff' = 0]_vars

\* C4: a successful fetch-data result stores the result's data, clears the
\* error and leaves the selection at min(old index, filteredCount - 1) of the
\* new data under the current filter flag, or at 0 when that list is empty.
C4_DataResultApplied ==
    [][(msg'.type = "prDataMsg" /\ msg'.err = NoErr)
        => /\ prData' = msg'.data
           /\ err' = NoErr
           /\ LET n == filteredCount(msg'.data, hideSkipped)
              IN selected' = IF n = 0 THEN 0 ELSE Min(selected, n - 1)]_vars

\* C4 witness: a data result has been applied whose filtered list is shorter
\* than its check list, and the selection is on the last filtered row.
C4_Witness ==
    /\ msg.type = "prDataMsg"
    /\ msg.err = NoErr
    /\ prData = msg.data
    /\ hideSkipped
    /\ filteredCount(prData, TRUE) < Len(prData.Checks)
    /\ filteredCount(prData, TRUE) >= 2
    /\ selected = filteredCount(prData, TRUE) - 1

\* C5: a failed fetch-data result sets the error to the result's error and
\* leaves PRData, selection index, scroll offset, mode and filter flag alone.
C5_DataErrorKeepsData ==
    [][(msg'.type = "prDataMsg" /\ msg'.err # NoErr)
        => /\ err' = msg'.err
           /\ UNCHANGED <<prData, selected, scrollOff, mode, hideSkipped>>]_vars

\* C5 witness: a data fetch has failed while data of an earlier fetch is
\* stored and a row other than the first is selected.
C5_Witness ==
    /\ msg.type = "prDataMsg"
    /\ msg.err # NoErr
    /\ err = msg.err
    /\ ~prData.nil
    /\ selected > 0

\* C6: a successful fetch-list result clears loading, replaces the PR list by
\* the result's list, clears the error and resets the selection index to 0.
C6_ListResultApplied ==
    (msg.type = "prListMsg" /\ msg.err = NoErr)
        => /\ ~loading
           /\ prs = msg.prs
           /\ err = NoErr
           /\ selected = 0

\* C6 witness: a non-empty list has arrived in Selecting.
C6_Witness ==
    /\ msg.type = "prListMsg"
    /\ msg.err = NoErr
    /\ mode = modeSelecting
    /\ Len(prs) = 2

\* C7: a failed fetch-list result clears loading and sets the error, and
\* leaves the PR list and the selection index unchanged.
C7_ListErrorKeepsList ==
    [][(msg'.type = "prListMsg" /\ msg'.err # NoErr)
        => /\ ~loading'
           /\ err' = msg'.err
           /\ UNCHANGED <<prs, selected>>]_vars

\* C7 witness: a list fetch has failed while a list is stored and its second
\* entry is selected.
C7_Witness ==
    /\ msg.type = "prListMsg"
    /\ msg.err # NoErr
    /\ err = msg.err
    /\ ~loading
    /\ mode = modeSelecting
    /\ Len(prs) = 2
    /\ selected = 1

\* The decimal text of the PR numbers the list fetch returns.
NumberText(n) == IF n = PR1.Number THEN "7" ELSE IF n = PR2.Number THEN "12" ELSE "?"

\* C8: Enter in Selecting enters Viewing iff the PR list is non-empty; then
\* the target is the PR at the selection index, selection index and scroll
\* offset are 0, PRData and error are cleared, and one fetch-data command and
\* one timer are issued; with an empty list nothing changes and nothing is
\* issued.
C8_EnterSelecting ==
    [][(IsKey(msg', "enter") /\ mode = modeSelecting)
        => IF Len(prs) > 0
           THEN /\ mode' = modeViewing
                /\ repo' = prs[selected + 1].Repo
                /\ prNumber' = NumberText(prs[selected + 1].Number)
                /\ selected' = 0
                /\ scrollOff' = 0
                /\ prData' = NoData
                /\ err' = NoErr
                /\ cmd' = << fetchCmd(repo', prNumber'), tickCmd(interval) >>
                /\ dataCmds' = [dataCmds EXCEPT ![Target(repo', prNumber')] = @ + 1]
                /\ ticks' = ticks + 1
                /\ listCmds' = listCmds
           ELSE /\ UNCHANGED state
                /\ cmd' = NoCmd
                /\ UNCHANGED <<listCmds, dataCmds, ticks>>]_vars

\* C8 witness: Enter on the second entry of the list has entered Viewing for
\* that pull request and issued its fetch and its timer.
C8_Witness ==
    /\ IsKey(msg, "enter")
    /\ mode = modeViewing
    /\ canGoBack
    /\ repo = PR2.Repo
    /\ prNumber = "12"
    /\ prData.nil
    /\ cmd = << fetchCmd(PR2.Repo, "12"), tickCmd(interval) >>
    /\ dataCmds[Target(PR2.Repo, "12")] >= 1
    /\ ticks >= 1

\* C9: Esc in Viewing, in a session that can go back, switches to Selecting,
\* resets selection index and scroll offset to 0, clears PRData, sets loading
\* and issues a fetch-list command.
C9_EscGoesBack ==
    [][(IsKey(msg', "esc") /\ mode = modeViewing /\ canGoBack)
        => /\ mode' = modeSelecting
           /\ selected' = 0
           /\ scrollOff' = 0
           /\ prData' = NoData
           /\ loading'
           /\ cmd' = << fetchPRListCmd >>
           /\ listCmds' = listCmds + 1]_vars

\* C9 witness: Esc has brought a session back to the list it had left.
C9_Witness ==
    /\ IsKey(msg, "esc")
    /\ canGoBack
    /\ mode = modeSelecting
    /\ loading
    /\ cmd = << fetchPRListCmd >>
    /\ Len(prs) = 2
    /\ repo = PR2.Repo

\* C10: Esc changes nothing and issues nothing when the session cannot go
\* back or is already in Selecting; so a session constructed with a target
\* is in Viewing in every reachable state.
C10_EscNoOp ==
    /\ [][(IsKey(msg', "esc") /\ (~canGoBack \/ mode = modeSelecting))
           => /\ UNCHANGED state
              /\ cmd' = NoCmd
              /\ UNCHANGED <<run, listCmds, dataCmds, ticks>>]_vars
    /\ [](~canGoBack => mode = modeViewing)

\* C10 witness: Esc was pressed in a session constructed with a target, while
\* its data was on screen.
C10_Witness ==
    /\ IsKey(msg, "esc")
    /\ ~canGoBack
    /\ mode = modeViewing
    /\ ~prData.nil
    /\ cmd = NoCmd

\* C11: 'r' in Selecting sets loading and issues exactly one fetch-list
\* command; in Viewing it issues exactly one fetch-data command for the
\* current target and leaves the whole state (loading, PRData and error
\* included) unchanged.
C11_ManualRefresh ==
    [][IsKey(msg', "r")
        => IF mode = modeSelecting
           THEN /\ loading'
                /\ cmd' = << fetchPRListCmd >>
                /\ listCmds' = listCmds + 1
                /\ UNCHANGED <<dataCmds, ticks>>
           ELSE /\ cmd' = << fetchCmd(repo, prNumber) >>
                /\ dataCmds' = [dataCmds EXCEPT ![Target(repo, prNumber)] = @ + 1]
                /\ UNCHANGED <<state, listCmds, ticks>>]_vars

\* C11 witness: 'r' was pressed in Viewing while data of an earlier fetch was
\* stored, and that data is still there with the refetch in flight.
C11_Witness ==
    /\ IsKey(msg, "r")
    /\ mode = modeViewing
    /\ ~prData.nil
    /\ ~loading
    /\ cmd = << fetchCmd(repo, prNumber) >>
    /\ dataCmds[Target(repo, prNumber)] >= 1

\* C12 (as claimed): in every reachable state whose mode is Selecting no
\* timer is armed and the message just handled is not a timer tick (so no
\* tick-triggered fetch-data command was issued there).
C12_NoTicksInSelecting ==
    mode = modeSelecting => (ticks = 0 /\ msg.type # "tickMsg")

\* C13: handling a tick in Viewing issues exactly one fetch-data command for
\* the current target, arms exactly one next tick at the configured interval
\* and changes no field of the session state.
C13_TickInViewing ==
    [][(msg'.type = "tickMsg" /\ mode = modeViewing)
        => /\ cmd' = << fetchCmd(repo, prNumber), tickCmd(interval) >>
           /\ dataCmds' = [dataCmds EXCEPT ![Target(repo, prNumber)] = @ + 1]
           /\ ticks' = ticks
           /\ UNCHANGED <<state, listCmds, run>>]_vars

\* C13 witness: a tick was handled in Viewing while an earlier fetch for the
\* same target was still in flight and data was on screen.
C13_Witness ==
    /\ msg.type = "tickMsg"
    /\ mode = modeViewing
    /\ ~prData.nil
    /\ cmd = << fetchCmd(repo, prNumber), tickCmd(interval) >>
    /\ dataCmds[Target(repo, prNumber)] = 2
    /\ ticks >= 1

C15_ToggleFilter ==
    [][IsKey(msg', "s")
        => IF mode = modeViewing
           THEN /\ hideSkipped' = ~hideSkipped
                /\ selected' = 0
                /\ scrollOff' = 0
           ELSE UNCHANGED state]_vars

\* C15 witness: 's' has shown the Skipped checks of a list that has some,
\* and the selection is on the first row.
C15_Witness ==
    /\ IsKey(msg, "s")
    /\ mode = modeViewing
    /\ ~hideSkipped
    /\ Len(prData.Checks) > nonSkipped(prData.Checks)
    /\ nonSkipped(prData.Checks) >= 2
    /\ selected = 0
    /\ scrollOff = 0

keptIndices(cs) == {i \in DOMAIN cs : cs[i].Status # Skipped}

\* The k-th smallest member of a set of indices.
kthIndex(S, k) == CHOOSE i \in S : Cardinality({j \in S : j <= i}) = k

\* C17: filteredChecks() returns the full check list when hide-skipped is
\* false, and otherwise exactly the checks that are not Skipped in their
\* original relative order, as many as there are; it returns nothing when no
\* PRData is stored or every check is Skipped.
C17_FilteredChecks ==
    out.fn = "filteredChecks"
        => LET cs == prData.Checks
               kept == keptIndices(cs)
           IN /\ prData.nil => out.checks = << >>
              /\ (~prData.nil /\ ~hideSkipped) => out.checks = cs
              /\ (~prData.nil /\ hideSkipped)
                    => /\ Len(out.checks) = Cardinality(kept)
                       /\ \A k \in 1 .. Len(out.checks) :
                              out.checks[k] = cs[kthIndex(kept, k)]
                       /\ (kept = {}) => out.checks = << >>

\* C17 witness: the call hid a Skipped check that stood between two others.
C17_Witness ==
    /\ out.fn = "filteredChecks"
    /\ hideSkipped
    /\ Len(prData.Checks) = 3
    /\ prData.Checks[1].Status = Pass
    /\ prData.Checks[2].Status = Skipped
    /\ prData.Checks[3].Status = Fail
    /\ Len(out.checks) = 2
    /\ out.checks[2].Name = "c"

\* The number of checks of a list that have a given status.
withStatus(cs, st) == Cardinality({i \in DOMAIN cs : cs[i].Status = st})

\* C18: the summary counts are those of the unfiltered check list, the
\* hidden count is the number of Skipped checks when hide-skipped is true,
\* total = passed + running + failed + skipped whatever the flag, and only
\* checks that are not Skipped are drawn while the flag is true.
C18_SummaryCounts ==
    out.fn = "View"
        => LET cs == prData.Checks
               c == out.counts
           IN /\ c.total = Len(cs)
              /\ c.passed = withStatus(cs, Pass)
              /\ c.running = withStatus(cs, Running)
              /\ c.failed = withStatus(cs, Fail)
              /\ c.skipped = withStatus(cs, Skipped)
              /\ c.total = c.passed + c.running + c.failed + c.skipped
              /\ hideSkipped
                    => /\ out.hidden = withStatus(cs, Skipped)
                       /\ \A i \in DOMAIN out.rows : out.rows[i].Status # Skipped
              /\ ~hideSkipped => out.hidden = 0

\* C18 witness: a list with a Skipped check in the middle was rendered with
\* the filter on: three checks counted, one hidden, two rows drawn.
C18_Witness ==
    /\ out.fn = "View"
    /\ hideSkipped
    /\ out.counts.total = 3
    /\ out.counts.skipped = 1
    /\ out.hidden = 1
    /\ Len(out.rows) = 2
    /\ prData.Checks[2].Status = Skipped

\* The check a selection index denotes in the filtered list of some data.
selectedCheck(pd, hide, sel) ==
    IF hide THEN pd.Checks[kthIndex(keptIndices(pd.Checks), sel + 1)]
    ELSE pd.Checks[sel + 1]

C20_ResizeRecordsSize ==
    [][msg'.type = "WindowSizeMsg"
        => /\ width' = msg'.Width
           /\ height' = msg'.Height
           /\ UNCHANGED <<mode, repo, prNumber, interval, prData, err, selected,
                          prs, loading, hideSkipped, scrollOff, canGoBack>>
           /\ cmd' = NoCmd
           /\ UNCHANGED <<run, listCmds, dataCmds, ticks>>]_vars

\* C20 witness: the viewport has grown while the list was scrolled, and the
\* scroll offset is still the one of the smaller viewport.
C20_Witness ==
    /\ msg.type = "WindowSizeMsg"
    /\ mode = modeViewing
    /\ height = msg.Height
    /\ width = msg.Width
    /\ selected > 0
    /\ scrollOff > Max(0, filteredCount(prData, hideSkipped) - visibleRows(height))

\* C21: 'q' or Ctrl+C, in either mode and whatever is loading, stored or in
\* flight, returns the terminate signal and leaves the state as it was; once
\* the session has terminated no event changes the state any more.
C21_Quit ==
    /\ [][(IsKey(msg', "q") \/ IsKey(msg', "ctrl+c"))
            => /\ cmd' = << Quit >>
               /\ run' = "quit"
               /\ UNCHANGED state
               /\ UNCHANGED <<listCmds, dataCmds, ticks>>]_vars
    /\ [][run = "quit" => UNCHANGED <<state, run>>]_vars
    /\ [](run = "quit" => ~ENABLED Next)

\* C21 witness: the session was quit from the picker while the list was
\* being fetched again after an error; the result in flight is never applied.
C21_Witness ==
    /\ run = "quit"
    /\ IsKey(msg, "q")
    /\ mode = modeSelecting
    /\ loading
    /\ err # NoErr
    /\ listCmds >= 1

\* C22: down/up move the selection index by exactly 1 while the result stays
\* inside [0, length-1] of the active collection and do nothing at either
\* end or on an empty collection; they issue no command and change no field
\* but the selection index and the scroll offset; 'j'/'k' do the same.
C22_MoveSelection ==
    [][(IsKey(msg', "down") \/ IsKey(msg', "j")
            \/ IsKey(msg', "up") \/ IsKey(msg', "k"))
        => LET step == IF IsKey(msg', "down") \/ IsKey(msg', "j") THEN 1 ELSE -1
               to == selected + step
           IN /\ selected' = IF to >= 0 /\ to <= activeCount - 1
                              THEN to ELSE selected
              /\ cmd' = NoCmd
              /\ opened' = ""
              /\ UNCHANGED <<mode, repo, prNumber, interval, prData, err, width,
                             height, prs, loading, hideSkipped, canGoBack>>
              /\ UNCHANGED <<run, listCmds, dataCmds, ticks>>]_vars

\* C22 witness: 'j' was pressed on the last row of a filtered list that is
\* shorter than the check list, and the selection stayed where it was.
C22_Witness ==
    /\ IsKey(msg, "j")
    /\ mode = modeViewing
    /\ hideSkipped
    /\ activeCount = 3
    /\ Len(prData.Checks) = 4
    /\ selected = 2

\* C23: results are merged one at a time as they arrive and the last one
\* applied wins: a successful data (list) result replaces the stored PRData
\* (PR list) by its payload whichever fetch was issued last, and nothing but
\* a successful result, or the clearing on a change of mode, alters them.
C23_LastAppliedWins ==
    [][/\ (msg'.type = "prDataMsg" /\ msg'.err = NoErr) => prData' = msg'.data
       /\ (msg'.type = "prListMsg" /\ msg'.err = NoErr) => prs' = msg'.prs
       /\ prData' # prData
            => \/ msg'.type = "prDataMsg" /\ msg'.err = NoErr
               \/ mode' # mode /\ prData' = NoData
       /\ prs' # prs => (msg'.type = "prListMsg" /\ msg'.err = NoErr)]_vars

\* C23 witness: the fetch issued last is still in flight, and the result
\* applied last, the one of an earlier fetch for another pull request, has
\* replaced data that was stored.
C23_Witness ==
    /\ msg.type = "prDataMsg"
    /\ msg.err = NoErr
    /\ prData = msg.data
    /\ mode = modeViewing
    /\ prData.URL # prURL(repo, prNumber)
    /\ Len(prData.Checks) = 4
    /\ dataCmds[Target(repo, prNumber)] >= 1

\* C24: no step but the delivery of its own result removes a fetch that is
\* in flight, and that delivery removes exactly one; while the session runs
\* the result of every fetch in flight can be delivered.
C24_NoCancel ==
    /\ [][/\ listCmds' < listCmds
               => (msg'.type = "prListMsg" /\ listCmds' = listCmds - 1)
          /\ msg'.type = "prListMsg"
               => (listCmds' = listCmds - 1 /\ dataCmds' = dataCmds)
          /\ (\E t \in Targets : dataCmds'[t] < dataCmds[t])
               => msg'.type = "prDataMsg"
          /\ msg'.type = "prDataMsg"
               => /\ listCmds' = listCmds
                  /\ \E t \in Targets :
                        dataCmds' = [dataCmds EXCEPT ![t] = @ - 1]]_vars
    /\ []((run = "running" /\ listCmds > 0) => ENABLED PRListResult)
    /\ []((run = "running" /\ dataInFlight > 0) => ENABLED PRDataResult)

\* C24 witness: the session went back to the picker and the fetch for the
\* pull request it left is still in flight next to the new list fetch.
C24_Witness ==
    /\ IsKey(msg, "esc")
    /\ mode = modeSelecting
    /\ listCmds = 1
    /\ repo = PR1.Repo
    /\ dataCmds[Target(repo, prNumber)] = 1
    /\ run = "running"

\* C25: a tick is handled the same way whether or not a fetch is
\* outstanding: it issues its fetch-data command and arms the next timer at
\* once, so that right after it the timer is armed while the fetch it
\* requested is still in flight, next to any earlier one.
C25_OverlappingFetches ==
    /\ [][msg'.type = "tickMsg"
            => /\ cmd' = << fetchCmd(repo, prNumber), tickCmd(interval) >>
               /\ dataInFlight' = dataInFlight + 1
               /\ ticks' = ticks
               /\ UNCHANGED state]_vars
    /\ [](msg.type = "tickMsg" => (ticks >= 1 /\ dataInFlight >= 1))

\* C25 witness: no result has arrived yet, and a tick has put a second
\* fetch-data command for the same pull request in flight.
C25_Witness ==
    /\ msg.type = "tickMsg"
    /\ ~canGoBack
    /\ prData.nil
    /\ err = NoErr
    /\ dataCmds[Target(repo, prNumber)] = 2
    /\ ticks >= 1

\* C26: a failed list or data result never ends the session and never
\* changes the mode; while an error is stored 'r' is still accepted and
\* issues a fetch; and a successful result of the mode's fetch kind clears
\* the error.
C26_ErrorRecovery ==
    /\ [][/\ ((msg'.type = "prListMsg" \/ msg'.type = "prDataMsg")
                 /\ msg'.err # NoErr)
               => (run' = "running" /\ mode' = mode /\ err' = msg'.err)
          /\ (IsKey(msg', "r") /\ err # NoErr)
               => (Len(cmd') = 1 /\ fetchesInFlight' = fetchesInFlight + 1)
          /\ (msg'.err = NoErr
                 /\ \/ msg'.type = "prListMsg" /\ mode = modeSelecting
                    \/ msg'.type = "prDataMsg" /\ mode = modeViewing)
               => err' = NoErr]_vars
    /\ []((run = "running" /\ err # NoErr /\ fetchesInFlight < MaxFetches)
            => ENABLED KeyR)

\* C26 witness: a data fetch has failed with data on screen, and 'r' has
\* issued the retry while the error is still stored.
C26_Witness ==
    /\ IsKey(msg, "r")
    /\ run = "running"
    /\ mode = modeViewing
    /\ err = DataErr
    /\ ~prData.nil
    /\ cmd = << fetchCmd(repo, prNumber) >>

\* C27: a session constructed with a repo and PR number starts in Viewing
\* with loading false, no PRData, no error, selection index 0, hide-skipped
\* true and no can-go-back capability, and its first commands are one
\* fetch-data and one timer; a session constructed without a target starts
\* in Selecting with loading true, hide-skipped true and the capability, and
\* its first command is one fetch-list and no timer.
C27_InitialState ==
    msg.type = "init"
        => IF repo # ""
           THEN /\ mode = modeViewing
                /\ ~loading
                /\ prData = NoData
                /\ err = NoErr
                /\ selected = 0
                /\ hideSkipped
                /\ ~canGoBack
                /\ cmd = << fetchCmd(repo, prNumber), tickCmd(interval) >>
                /\ dataCmds = [NoneInFlight EXCEPT ![Target(repo, prNumber)] = 1]
                /\ ticks = 1
                /\ listCmds = 0
           ELSE /\ mode = modeSelecting
                /\ loading
                /\ hideSkipped
                /\ canGoBack
                /\ cmd = << fetchPRListCmd >>
                /\ listCmds = 1
                /\ dataCmds = NoneInFlight
                /\ ticks = 0

\* C27 witness: the session constructed without a target, before its first
\* message.
C27_Witness ==
    /\ msg.type = "init"
    /\ repo = ""
    /\ prNumber = ""
    /\ mode = modeSelecting
    /\ prs = << >>
    /\ listCmds = 1

\* The screen the precedence of the claim chooses for the current state.
claimedScreen ==
    IF width = 0 THEN "placeholder"
    ELSE IF err # NoErr THEN "error"
    ELSE IF (mode = modeSelecting /\ loading) \/ (mode = modeViewing /\ prData.nil)
         THEN "fetching"
    ELSE IF (mode = modeSelecting /\ Len(prs) = 0)
              \/ (mode = modeViewing /\ Len(prData.Checks) = 0)
         THEN "none"
    ELSE "list"

\* C28 (as claimed): in both modes the renderer draws, in this order of
\* precedence, the placeholder when the width is not set, the error banner
\* when an error is stored, the fetching placeholder when loading (Selecting)
\* or without PRData (Viewing), the none-found message for an empty result
\* set, and otherwise the list or table.
C28_ViewPrecedence ==
    out.fn = "View" => out.screen = claimedScreen

\* The canonical value the mapping table gives an upper-case token.
tableStatus(tok) ==
    IF tok \in {"SUCCESS", "PASS"} THEN Pass
    ELSE IF tok \in {"FAILURE", "FAIL", "ERROR", "TIMED_OUT", "ACTION_REQUIRED",
                     "STARTUP_FAILURE"} THEN Fail
    ELSE IF tok \in {"SKIPPED", "CANCELLED", "NEUTRAL", "STALE"} THEN Skipped
    ELSE Running

\* C29: normalize returns, for a raw status that is a token in any letter
\* case with whitespace around it, the canonical value of the token: Pass,
\* Fail, Running or Skipped as the table says, and Running for the empty
\* string and for every token that is not in the table.
C29_Normalize ==
    out.fn = "normalizeStatus"
        => /\ out.status \in {Running, Fail, Pass, Skipped}
           /\ out.status = tableStatus(out.token)
           /\ out.token \in OtherTokens => out.status = Running

\* C29 witness: a token of the table written in lower case between
\* whitespace was given its canonical value.
C29_Witness ==
    /\ out.fn = "normalizeStatus"
    /\ out.token = "TIMED_OUT"
    /\ out.raw = "\ttimed_out\n"
    /\ out.status = Fail

\* C30: the status of an upstream check record is the normalized first
\* non-empty of conclusion, status and state, in that order; all three
\* empty gives Running.
C30_StatusPrecedence ==
    out.fn = "itemStatus"
        => LET i == out.item
               first == IF i.Conclusion # "" THEN i.Conclusion
                        ELSE IF i.Status # "" THEN i.Status
                        ELSE i.State
           IN /\ out.status = tableStatus(first)
              /\ (i.Conclusion = "" /\ i.Status = "" /\ i.State = "")
                    => out.status = Running

\* C30 witness: a completed check whose conclusion is a failure was given
\* the conclusion's value, not the one of its status or state.
C30_Witness ==
    /\ out.fn = "itemStatus"
    /\ out.item.Conclusion = "FAILURE"
    /\ out.item.Status = "COMPLETED"
    /\ out.item.State = "SUCCESS"
    /\ out.status = Fail

\* The checks of a response as converted, in the order of arrival.
arrived == [i \in 1..Len(out.rollup) |-> itemCheck(out.rollup[i], out.now)]

\* C31: a StatusContext record without a completion timestamp (none, or the
\* zero value) gives a check that is completed with the duration "???"
\* exactly when its status is not Running; a Running record of that class
\* and every other record have the completed flag and the duration that
\* their timestamps give.
C31_ForcedCompletion ==
    (out.fn = "fetchPRData" /\ Len(out.rollup) = 1)
        => LET i == out.rollup[1]
               c == out.fetched[1]
               stamp == IF HasPrefix(i.CompletedAt, "0001") THEN ""
                        ELSE i.CompletedAt
               noStamp == i.Typename = "StatusContext" /\ stamp = ""
               timed == parseDuration(i.StartedAt, stamp, out.now)
           IN /\ noStamp => ((c.Completed /\ c.Duration = "???")
                                <=> c.Status # Running)
              /\ (~noStamp \/ c.Status = Running)
                    => /\ c.Completed = timed.completed
                       /\ c.Duration = timed.dur
                       /\ c.Duration # "???"

\* C31 witness: a StatusContext item in state SUCCESS that started and has
\* no completedAt became a completed check of duration "???".
C31_Witness ==
    /\ out.fn = "fetchPRData"
    /\ Len(out.rollup) = 1
    /\ out.rollup[1].Typename = "StatusContext"
    /\ out.rollup[1].Context = "ci/jenkins"
    /\ out.rollup[1].State = "SUCCESS"
    /\ out.rollup[1].Conclusion = ""
    /\ out.rollup[1].Status = ""
    /\ out.rollup[1].StartedAt = "2024-01-01T10:00:00Z"
    /\ out.rollup[1].CompletedAt = ""
    /\ out.fetched[1].Status = Pass
    /\ out.fetched[1].Completed
    /\ out.fetched[1].Duration = "???"

\* The names of the sorted items, in ascending order.
NameOrder == <<"alpha", "beta", "zebra">>

namePlace(n) ==
    IF \E k \in 1..Len(NameOrder) : NameOrder[k] = n
    THEN CHOOSE k \in 1..Len(NameOrder) : NameOrder[k] = n
    ELSE 0

\* How many times c occurs in cs.
occurrences(cs, c) == Cardinality({k \in 1..Len(cs) : cs[k] = c})

\* C32: the checks of a fetched PRData are the checks of the upstream
\* records rearranged, ascending by status (Running, Fail, Pass, Skipped)
\* and, within a status, ascending by name, whatever the order of arrival.
C32_SortedByStatusThenName ==
    out.fn = "fetchPRData"
        => /\ Len(out.fetched) = Len(out.rollup)
           /\ \A k \in 1..Len(arrived) :
                 occurrences(out.fetched, arrived[k])
                    = occurrences(arrived, arrived[k])
           /\ \A i, j \in 1..Len(out.fetched) :
                 i < j =>
                    \/ out.fetched[i].Status < out.fetched[j].Status
                    \/ /\ out.fetched[i].Status = out.fetched[j].Status
                       /\ namePlace(out.fetched[i].Name)
                             <= namePlace(out.fetched[j].Name)

\* C32 witness: Pass zebra, Pass alpha, Fail beta came out as beta, alpha,
\* zebra.
C32_Witness ==
    /\ out.fn = "fetchPRData"
    /\ Len(out.rollup) = 3
    /\ out.rollup[1].Name = "zebra" /\ out.rollup[1].Conclusion = "SUCCESS"
    /\ out.rollup[2].Name = "alpha" /\ out.rollup[2].Conclusion = "SUCCESS"
    /\ out.rollup[3].Name = "beta" /\ out.rollup[3].Conclusion = "FAILURE"
    /\ out.fetched[1].Name = "beta" /\ out.fetched[1].Status = Fail
    /\ out.fetched[2].Name = "alpha" /\ out.fetched[2].Status = Pass
    /\ out.fetched[3].Name = "zebra" /\ out.fetched[3].Status = Pass

\* c put into the sorted list s behind every element it is not less than.
RECURSIVE insertBehind(_, _)
insertBehind(s, c) ==
    IF Len(s) = 0 THEN <<c>>
    ELSE IF less(c, s[Len(s)])
         THEN insertBehind(SubSeq(s, 1, Len(s) - 1), c) \o <<s[Len(s)]>>
         ELSE s \o <<c>>

\* The stable sort of cs.
RECURSIVE stableSorted(_)
stableSorted(cs) ==
    IF Len(cs) = 0 THEN << >>
    ELSE insertBehind(stableSorted(SubSeq(cs, 1, Len(cs) - 1)), cs[Len(cs)])

\* C33: the sort is stable: checks of the same status and name come out in
\* the order in which they arrived.
C33_SortStable ==
    out.fn = "fetchPRData" => out.fetched = stableSorted(arrived)

\* C34: a step in Viewing that changes the selection moves the scroll offset
\* as little as possible: to selected - visibleRows + 1 when the selection
\* is at or below the end of the window, to selected when it is above the
\* window, and not at all otherwise; the offset is never negative.
C34_MinimalScroll ==
    /\ [][(mode = modeViewing /\ mode' = modeViewing /\ selected' # selected)
            => LET rows == visibleRows(height')
               IN scrollOff' =
                     IF selected' >= scrollOff + rows THEN selected' - rows + 1
                     ELSE IF selected' < scrollOff THEN selected'
                     ELSE scrollOff]_vars
    /\ [](scrollOff >= 0)

\* C34 witness: Down moved the selection below a window of two rows and the
\* offset followed by one row.
C34_Witness ==
    /\ mode = modeViewing
    /\ IsKey(msg, "down")
    /\ visibleRows(height) = 2
    /\ selected = 2
    /\ scrollOff = 1

\* C35: whenever Enter is handled, the selection is a valid index of the
\* collection the handler indexes: the PR list in Selecting, the check list
\* of open-details in Viewing; no sequence of events, results that replace
\* a collection after it was navigated included, ends in an access out of
\* range.
C35_IndexSafety ==
    /\ [][IsKey(msg', "enter")
            => /\ (mode = modeSelecting /\ Len(prs) > 0)
                     => selected + 1 \in DOMAIN prs
               /\ (mode = modeViewing /\ ~prData.nil /\ Len(navChecks) > 0)
                     => selected + 1 \in DOMAIN navChecks]_vars
    /\ [](run # "panic")

\* C35 witness: Enter opened the details of the last check of a list of
\* several checks.
C35_Witness ==
    /\ IsKey(msg, "enter")
    /\ mode = modeViewing
    /\ run = "running"
    /\ Len(navChecks) >= 2
    /\ selected = Len(navChecks) - 1
    /\ opened = navChecks[selected + 1].DetailsURL
    /\ opened # ""

\* C36 (as claimed): at most one periodic timer is armed at any time, also
\* after going back to Selecting and entering Viewing again.
C36_OneTimer == ticks <= 1

\* C37 (as claimed): the PRData stored in Viewing is the one of the current
\* target; the result of a fetch issued for a pull request viewed earlier is
\* never stored as the current PRData.
C37_DataOfCurrentTarget ==
    (mode = modeViewing /\ ~prData.nil) => prData.URL = prURL(repo, prNumber)

\* C38 (as claimed): a result of the kind of the other mode does not disturb
\* navigation: a list result applied in Viewing leaves the selection where
\* it is, and a data result applied in Selecting leaves the selection where
\* it is and PRData at none.
C38_CrossModeResults ==
    [][/\ (msg'.type = "prListMsg" /\ mode = modeViewing)
            => selected' = selected
       /\ (msg'.type = "prDataMsg" /\ mode = modeSelecting)
            => (selected' = selected /\ prData' = NoData)]_vars

\* C39 (as claimed): the stored error matches the mode: in Selecting it is
\* the error of a failed fetch-list, in Viewing the error of a failed
\* fetch-data.
C39_ErrorMatchesMode ==
    /\ mode = modeSelecting => err \in {NoErr, ListErr}
    /\ mode = modeViewing => err \in {NoErr, DataErr}

\* C40: loading never sticks: whenever loading is set a fetch-list command is
\* in flight, so that under fair delivery of results a running program
\* clears it again; and loading is raised only by steps that issue a
\* fetch-list command: construction in picker mode, manual refresh in
\* Selecting, going back.
C40_LoadingNeverSticks ==
    /\ [](loading => listCmds > 0)
    /\ [][(loading' /\ ~loading)
            => /\ IsKey(msg', "r") \/ IsKey(msg', "esc")
               /\ IsKey(msg', "r") => mode = modeSelecting
               /\ IsKey(msg', "esc") => mode = modeViewing
               /\ listCmds' = listCmds + 1
               /\ fetchPRListCmd \in {cmd'[k] : k \in DOMAIN cmd'}]_vars
    /\ (loading ~> (~loading \/ run # "running"))

\* C40 witness: going back raised loading and issued the fetch-list command
\* that will clear it.
C40_Witness ==
    /\ IsKey(msg, "esc")
    /\ mode = modeSelecting
    /\ loading
    /\ listCmds = 1
    /\ cmd = << fetchPRListCmd >>

====
